---- MODULE Spec2Model ----
(***************************************************************************)
(* Model of the kv crate (kv/src/lib.rs): an append-only record log with   *)
(* set / unset / get, shared between threads behind one parking_lot Mutex, *)
(* backed by a file opened in read+append mode or by a Vec<u8>.            *)
(*                                                                         *)
(* Text is modelled as sequences of one-character strings.  The log is the *)
(* byte content of the backing storage, exactly as writeln! produces it    *)
(* and as BufRead::read_line / str::split / serde_json consume it.         *)
(***************************************************************************)
EXTENDS Integers, Sequences, FiniteSets, TLC

----
\* Characters

COMMA == ","
NL == "\n"
QUOTE == "\""
BSL == "\\"
\* one byte that is not valid UTF-8 (only ever found in a pre-existing file
\* or in a non-UTF-8 path)
BAD == "xFF"
Digits == <<"0", "1", "2", "3", "4", "5", "6", "7", "8", "9">>
DigitSet == {Digits[i] : i \in 1..10}
\* the whitespace str::trim removes, as far as the model's alphabet goes
WhiteSpace == {NL, " "}

\* Option<T>
None == <<>>
Some(v) == <<v>>

\* Result<_, Error>: tag is "Ok" or the Error variant
Ok(x) == [tag |-> "Ok", val |-> x, why |-> ""]
ReadError(w) == [tag |-> "Read", val |-> None, why |-> w]
WriteError(w) == [tag |-> "Write", val |-> None, why |-> w]

\* impl Display for Error, from the #[error(..)] attribute of each variant:
\* the text before the cause
describe(tag) ==
    IF tag = "Read" THEN "Unable to write record"
    ELSE IF tag = "Write" THEN "Unable to read record"
    ELSE ""

\* Error::Write(err.to_string())
write_err(w) == WriteError(w)
\* Error::Read(err.to_string())
read_err(w) == ReadError(w)

----
\* Sequence helpers

\* F applied to the value of e (e is evaluated once)
With(e, F(_)) == CHOOSE r \in {F(x) : x \in {e}} : TRUE

\* least i >= from with s[i] = c, or 0
IndexFrom(s, c, from) ==
    With(<<s, from>>, LAMBDA x :
        IF \E i \in x[2]..Len(x[1]) : x[1][i] = c
        THEN CHOOSE i \in x[2]..Len(x[1]) :
                 x[1][i] = c /\ \A j \in x[2]..(i - 1) : x[1][j] # c
        ELSE 0)

IndexOf(s, c) == IndexFrom(s, c, 1)

Contains(s, c) == With(s, LAMBDA x : \E i \in 1..Len(x) : x[i] = c)

\* str::trim
trim(s) ==
    With(s, LAMBDA x :
        LET keep == {i \in 1..Len(x) : x[i] \notin WhiteSpace}
        IN IF keep = {} THEN <<>>
           ELSE SubSeq(x, CHOOSE i \in keep : \A j \in keep : i <= j,
                          CHOOSE i \in keep : \A j \in keep : j <= i))

----
\* Record codec: serde_json over Option<T>, for T = u8, String, PathBuf and
\* Option<u8>

NULL == <<"n", "u", "l", "l">>

RECURSIVE Decimal(_)
\* itoa
Decimal(n) ==
    IF n < 10 THEN <<Digits[n + 1]>>
    ELSE Decimal(n \div 10) \o <<Digits[(n % 10) + 1]>>

DigitVal(c) == CHOOSE d \in 0..9 : Digits[d + 1] = c

RECURSIVE NumVal(_)
NumVal(s) ==
    IF s = <<>> THEN 0
    ELSE 10 * NumVal(SubSeq(s, 1, Len(s) - 1)) + DigitVal(s[Len(s)])

\* JSON string escaping of the characters the model's alphabet has
EscapeChar(c) ==
    IF c = QUOTE THEN <<BSL, QUOTE>>
    ELSE IF c = BSL THEN <<BSL, BSL>>
    ELSE IF c = NL THEN <<BSL, "n">>
    ELSE <<c>>

RECURSIVE Escape(_)
Escape(s) == IF s = <<>> THEN <<>> ELSE EscapeChar(Head(s)) \o Escape(Tail(s))

\* serde_json::to_string(&Option<T>): [ok, text]; a PathBuf that is not
\* valid UTF-8 cannot be serialized; Some(x) is written as x is, so an
\* Option<u8> inside follows the same rule: None as null, Some(n) as n
to_string(o, T) ==
    IF o = None THEN [ok |-> TRUE, text |-> NULL]
    ELSE IF T = "u8" THEN [ok |-> TRUE, text |-> Decimal(o[1])]
    ELSE IF T = "Option<u8>"
         THEN [ok |-> TRUE,
               text |-> IF o[1] = None THEN NULL ELSE Decimal(o[1][1])]
    ELSE IF T = "PathBuf" /\ Contains(o[1], BAD) THEN [ok |-> FALSE, text |-> <<>>]
    ELSE [ok |-> TRUE, text |-> <<QUOTE>> \o Escape(o[1]) \o <<QUOTE>>]

\* a JSON number read as a u8
parse_u8(v) ==
    IF v = <<>> \/ (\E i \in 1..Len(v) : v[i] \notin DigitSet) THEN read_err("decode")
    ELSE IF Len(v) > 1 /\ v[1] = "0" THEN read_err("decode")
    ELSE IF Len(v) > 3 \/ NumVal(v) > 255 THEN read_err("decode")
    ELSE Ok(Some(NumVal(v)))

RECURSIVE parse_str_from(_, _, _)
\* the characters of a JSON string after the opening quote; the closing quote
\* must be the last character of the text
parse_str_from(v, i, acc) ==
    IF i > Len(v) THEN read_err("decode")
    ELSE IF v[i] = QUOTE
         THEN IF i = Len(v) THEN Ok(Some(acc)) ELSE read_err("decode")
    ELSE IF v[i] = BSL
         THEN IF i + 1 > Len(v) THEN read_err("decode")
              ELSE IF v[i + 1] = QUOTE THEN parse_str_from(v, i + 2, Append(acc, QUOTE))
              ELSE IF v[i + 1] = BSL THEN parse_str_from(v, i + 2, Append(acc, BSL))
              ELSE IF v[i + 1] = "n" THEN parse_str_from(v, i + 2, Append(acc, NL))
              ELSE read_err("decode")
    ELSE IF v[i] = NL THEN read_err("decode")
    ELSE parse_str_from(v, i + 1, Append(acc, v[i]))

parse_str(v) ==
    IF v = <<>> \/ v[1] # QUOTE THEN read_err("decode")
    ELSE parse_str_from(v, 2, <<>>)

\* serde_json::from_str::<Option<T>>(v).map_err(read_err): null is None of the
\* outer Option, whatever T is; anything else is read as a T and wrapped in
\* Some
from_str(v, T) ==
    With(v, LAMBDA x :
        IF x = NULL THEN Ok(None)
        ELSE IF T = "u8" THEN parse_u8(x)
        ELSE IF T = "Option<u8>"
             THEN With(parse_u8(x), LAMBDA r :
                      IF r.tag = "Ok" THEN Ok(Some(r.val)) ELSE r)
        ELSE parse_str(x))

----
\* Scanner

\* BufRead::read_line: the bytes up to and including the next line terminator,
\* or everything that is left
read_line(bytes) ==
    With(<<bytes, IndexOf(bytes, NL)>>, LAMBDA x :
        IF x[2] = 0 THEN x[1] ELSE SubSeq(x[1], 1, x[2]))

\* line.split(','), first call of next(): the text before the first comma, or
\* the whole line (line terminator included)
split_first(line) ==
    With(<<line, IndexOf(line, COMMA)>>, LAMBDA x :
        IF x[2] = 0 THEN x[1] ELSE SubSeq(x[1], 1, x[2] - 1))

\* line.split(','), second call of next(): [some, text], the text between the
\* first comma and the second (or the end of the line)
split_second(line) ==
    With(<<line, IndexOf(line, COMMA)>>, LAMBDA x :
        With(IndexFrom(x[1], COMMA, x[2] + 1), LAMBDA d :
            IF x[2] = 0 THEN [some |-> FALSE, text |-> <<>>]
            ELSE [some |-> TRUE,
                  text |-> IF d = 0 THEN SubSeq(x[1], x[2] + 1, Len(x[1]))
                           ELSE SubSeq(x[1], x[2] + 1, d - 1)]))

\* the comparison left out: every line is taken for a record of the key
key_matches_eager(k, key) == TRUE

\* if k == key
key_matches(k, key) == k = key

RECURSIVE scan_from(_, _, _, _)
\* one turn of the while loop of search_lines on the unread bytes b, with the
\* line just read and the running value v
scan_line(b, line, key, T, v) ==
    IF Contains(line, BAD) THEN read_err("utf8")
    ELSE IF key_matches(split_first(line), key)
         THEN With(split_second(line), LAMBDA s :
                  IF ~s.some THEN ReadError("line")
                  ELSE With(from_str(trim(s.text), T), LAMBDA d :
                           IF d.tag # "Ok" THEN d
                           ELSE scan_from(SubSeq(b, Len(line) + 1, Len(b)), key, T, d.val)))
         ELSE scan_from(SubSeq(b, Len(line) + 1, Len(b)), key, T, v)

\* the while loop of search_lines, from the running value `value`
scan_from(bytes, key, T, value) ==
    With(<<bytes, value>>, LAMBDA x :
        IF x[1] = <<>> THEN Ok(x[2])
        ELSE With(read_line(x[1]), LAMBDA line :
                 scan_line(x[1], line, key, T, x[2])))

search_lines(bytes, key, T) == scan_from(bytes, key, T, None)

\* the offsets at which a line of bytes ends
LineEnds(bytes) == {n \in 1..Len(bytes) : bytes[n] = NL} \cup {Len(bytes)}

\* how far into bytes search_lines has read when it returns: to the end, or
\* to the end of the line at which it returns an error
scan_stop(bytes, key, T) ==
    With(bytes, LAMBDA b :
        IF search_lines(b, key, T).tag = "Ok" THEN Len(b)
        ELSE CHOOSE n \in LineEnds(b) :
                /\ search_lines(SubSeq(b, 1, n), key, T).tag # "Ok"
                /\ \A m \in LineEnds(b) :
                      m < n => search_lines(SubSeq(b, 1, m), key, T).tag = "Ok")

----
\* Store: state

Threads == {"t1", "t2"}
NoThread == "none"

\* caps on the number of set/unset calls in one behaviour
MaxOps == 3
MaxSeedOps == 1
MaxConcOps == 2
MaxIOOps == 1
MaxCodecOps == 2
MaxKeyOps == 2

K1 == <<"k">>
K2 == <<"j">>
\* a key that contains the field delimiter
KC == <<"k", COMMA, "1">>

\* a key that contains a line terminator
KN == <<"j", NL, "k">>

StoreTypes == {"u8", "String"}

\* the values callers pass to set, per value type
ValuesOf(T) ==
    IF T = "u8" THEN {1, 2}
    ELSE IF T = "String" THEN {<<"a">>, <<"a", COMMA, "b">>}
    ELSE IF T = "Option<u8>" THEN {None, Some(1)}
    ELSE {<<"a">>, <<BAD>>}

\* file contents found by Store::open that no set/unset of this store wrote
Seeds ==
    { K2 \o <<COMMA, "1", NL>> \o K1,
      K1 \o <<NL>> \o K2 \o <<COMMA, "1", NL>>,
      K2 \o <<COMMA, BAD, NL>> \o K1 \o <<COMMA, "1", NL>>,
      K1 \o <<COMMA, NL>> \o K2 \o <<COMMA, "1", NL>> }

VARIABLES
    T,        \* the value type the Store is instantiated with
    kind,     \* Storage variant: "File" or "Memory"
    disk,     \* content of the file at the path (Storage::File)
    pos,      \* cursor of the open File
    mem,      \* Storage::Memory buffer; for a file-backed store, the buffer of
              \* an in-memory store that is given the same operations
    lock,     \* the Mutex: the thread that holds it, or NoThread
    pc,       \* per thread: position inside set / unset / get
    op,       \* per thread: the call [name, key, val]
    data,     \* per thread: the local `data` of set / unset
    res,      \* per thread: the Result of the call
    twinRes,  \* per thread: the Result of the same get on `mem`
    hist,     \* the set/unset calls whose record was appended, in order
    writes,   \* number of set/unset calls made
    seed,     \* content of the file when the store was first opened
    openLen,  \* length of the file at the latest Store::open
    univ,     \* the callers and the files: [threads, keys, maxw, chunk]
    handle,   \* per thread: the StoreInner its Store value points to
    midStart  \* per thread: its call took the lock with the file cursor
              \* neither at offset zero nor at the end of the file

\* The bot (src/bot.rs, src/main.rs): the configuration shared with the
\* watcher thread, and one reaction event being handled.  Handlers of
\* different events share nothing but the configuration, which they only read.
VARIABLES
    config,      \* the Config inside Arc<RwLock<Config>>
    event,       \* the Reaction being handled: [kind, emoji, member, user_id]
    hpc,         \* position of the handler inside reaction_add / reaction_remove
    user_roles,  \* the local `user_roles` of the handler
    issued,      \* the request the handler has sent: "none", "pin" or "unpin"
    inForce      \* the Config values in force at some instant since the
                 \* handler was called

botVars == <<config, event, hpc, user_roles, issued, inForce>>

vars == <<T, kind, disk, pos, mem, lock, pc, op, data, res, twinRes, hist,
          writes, seed, openLen, univ, handle, midStart, botVars>>

NoOp == [name |-> "none", key |-> <<>>, val |-> None]
NoRes == [tag |-> "none", val |-> None, why |-> ""]

Ops(keys, vals) ==
    [name : {"set"}, key : keys, val : {Some(v) : v \in vals}]
        \cup [name : {"unset", "get"}, key : keys, val : {None}]

WritePcs == {"w_key", "w_comma", "w_data", "w_nl"}

\* the allocation Arc::new makes in Store::open / Store::in_memory; the
\* variables disk, pos, mem and lock are the StoreInner and Mutex it holds
Origin == 1

\* a clone that allocates a copy of the StoreInner
clone_forked(h) == h + 1

\* #[derive(Clone)] on Store(Arc<..>): Arc::clone, a pointer to the same
\* allocation
clone(h) == h

\* Feature (config.rs): the one feature flag
Features == {"Pins"}

\* the RoleId values of the guild
Roles == {"r1", "r2"}

\* Config (config.rs), as far as the handlers read it; of the two Vecs only
\* membership is ever asked
Configs == [pin_roles : SUBSET Roles, enabled_features : SUBSET Features]

PIN_EMOJI == "pushpin"

\* ReactionType: a Unicode emoji (the pin or another one) or a Custom one
Emojis == {[variant |-> "Unicode", emoji |-> PIN_EMOJI],
           [variant |-> "Unicode", emoji |-> "thumbsup"],
           [variant |-> "Custom", emoji |-> ""]}

\* the Reaction events of the gateway, as far as the handlers read them
Reactions ==
    [kind : {"add", "remove"},
     emoji : Emojis,
     member : {None} \cup {Some(rs) : rs \in SUBSET Roles},
     user_id : {None, Some("u")}]

NoReaction == [kind |-> "none", emoji |-> [variant |-> "Custom", emoji |-> ""],
               member |-> None, user_id |-> None]

\* no bot: a program that only uses the kv crate
NoBot ==
    /\ config = [pin_roles |-> {}, enabled_features |-> {}]
    /\ event = NoReaction
    /\ hpc = "idle"
    /\ user_roles = {}
    /\ issued = "none"
    /\ inForce = {}

InitCommon ==
    /\ handle = [t \in Threads |-> IF t = "t1" THEN Origin ELSE clone(Origin)]
    /\ midStart = [t \in Threads |-> FALSE]
    /\ pos = 0
    /\ mem = <<>>
    /\ lock = NoThread
    /\ pc = [t \in Threads |-> "idle"]
    /\ op = [t \in Threads |-> NoOp]
    /\ data = [t \in Threads |-> <<>>]
    /\ res = [t \in Threads |-> NoRes]
    /\ twinRes = [t \in Threads |-> NoRes]
    /\ hist = <<>>
    /\ writes = 0
    /\ disk = seed
    /\ openLen = Len(seed)

\* Store::open on a new path, or Store::in_memory; one caller
Init ==
    /\ T \in StoreTypes
    /\ kind \in {"File", "Memory"}
    /\ seed = <<>>
    /\ univ = [threads |-> {"t1"}, keys |-> {K1, K2, KC}, maxw |-> MaxOps,
              chunk |-> "file"]
    /\ InitCommon
    /\ NoBot

\* Store::open on a path that already holds text
InitSeeded ==
    /\ T \in StoreTypes
    /\ kind = "File"
    /\ seed \in Seeds
    /\ univ = [threads |-> {"t1"}, keys |-> {K1, K2}, maxw |-> MaxSeedOps,
              chunk |-> "file"]
    /\ InitCommon
    /\ NoBot

\* clones of one Store in two threads
InitConc ==
    /\ T = "String"
    /\ kind \in {"File", "Memory"}
    /\ seed = <<>>
    /\ univ = [threads |-> Threads, keys |-> {K1}, maxw |-> MaxConcOps,
              chunk |-> "file"]
    /\ InitCommon
    /\ NoBot

\* a Store<PathBuf>, whose values may fail to serialize
InitIO ==
    /\ T = "PathBuf"
    /\ kind = "File"
    /\ seed = <<>>
    /\ univ = [threads |-> Threads, keys |-> {K1}, maxw |-> MaxIOOps,
              chunk |-> "file"]
    /\ InitCommon
    /\ NoBot

\* stores of every value type the model has a codec for, Option<u8> included
\* (any T: Serialize + Deserialize is accepted), on files shorter and longer
\* than the buffer of the reader
InitCodec ==
    /\ T \in StoreTypes \cup {"Option<u8>"}
    /\ kind \in {"File", "Memory"}
    /\ seed = <<>>
    /\ \E c \in {"file", "line"} :
          univ = [threads |-> {"t1"}, keys |-> {K1, K2}, maxw |-> MaxCodecOps,
                  chunk |-> c]
    /\ InitCommon
    /\ NoBot

\* a Store<u8> whose caller uses keys of every shape: set and unset take any
\* &str as the key
InitKeys ==
    /\ T = "u8"
    /\ kind = "File"
    /\ seed = <<>>
    /\ univ = [threads |-> {"t1"}, keys |-> {K1, K2, KC, KN}, maxw |-> MaxKeyOps,
              chunk |-> "file"]
    /\ InitCommon
    /\ NoBot

----
\* Backing storage

\* a file opened without append(true): a write goes where the cursor is
file_write_at_cursor(d, p, bytes) ==
    SubSeq(d, 1, p) \o bytes \o SubSeq(d, p + Len(bytes) + 1, Len(d))

\* File::options().append(true): every write goes to the end of the file,
\* wherever the cursor is
file_write(d, p, bytes) == d \o bytes

\* a buffer that keeps the latest write only
vec_write_replace(v, bytes) == bytes

\* Vec<u8> as io::Write: the bytes are pushed at the end
vec_write(v, bytes) == v \o bytes

\* the rewind left out: the cursor stays where it is
rewind_skipped(p) == p

\* Seek::rewind
rewind(p) == 0

\* what a reader of the File gets: the bytes from the cursor on
file_read(d, p) == SubSeq(d, p + 1, Len(d))

\* a reader that takes the bytes it reads out of the buffer
buffer_drained(v) == <<>>

\* b.as_slice() as the reader: the reads advance a slice that borrows the
\* Vec, and the Vec keeps its bytes
buffer_after_read(v) == v

\* the file opened with truncate(true)
open_truncate(d) == <<>>

\* File::options() without truncate: the content found is kept
open_content(d) == d

\* a lock that is granted whoever holds it
can_lock_always(l) == TRUE

\* the Mutex is free
can_lock(l) == l = NoThread

\* the lock released on the Ok path only
unlocked_on_ok(t, r) == IF r.tag = "Ok" THEN NoThread ELSE t

\* the MutexGuard is dropped when the call returns, with Ok or Err
unlocked(t, r) == NoThread

\* the four write_all calls writeln!(.., "{key},{data}") makes, by position
Piece(t) ==
    IF pc[t] = "w_key" THEN op[t].key
    ELSE IF pc[t] = "w_comma" THEN <<COMMA>>
    ELSE IF pc[t] = "w_data" THEN data[t]
    ELSE <<NL>>

NextPiece(p) ==
    IF p = "w_key" THEN "w_comma"
    ELSE IF p = "w_comma" THEN "w_data"
    ELSE IF p = "w_data" THEN "w_nl"
    ELSE "ret"

\* the line set / unset append
Record(key, text) == key \o <<COMMA>> \o text \o <<NL>>

\* the pieces of the record of thread t that are still to be written
Remaining(t) ==
    IF pc[t] = "w_key" THEN Record(op[t].key, data[t])
    ELSE IF pc[t] = "w_comma" THEN <<COMMA>> \o data[t] \o <<NL>>
    ELSE IF pc[t] = "w_data" THEN data[t] \o <<NL>>
    ELSE <<NL>>

----
\* Store: operations

\* a thread calls set, unset or get through its clone
Call(t) ==
    /\ t \in univ.threads
    /\ handle[t] = Origin
    /\ pc[t] \in {"idle", "done"}
    /\ \E o \in Ops(univ.keys, ValuesOf(T)) :
          /\ o.name # "get" => writes < univ.maxw
          /\ op' = [op EXCEPT ![t] = o]
          /\ writes' = IF o.name = "get" THEN writes ELSE writes + 1
    /\ pc' = [pc EXCEPT ![t] = "wait"]
    /\ res' = [res EXCEPT ![t] = NoRes]
    /\ twinRes' = [twinRes EXCEPT ![t] = NoRes]
    /\ UNCHANGED <<T, kind, disk, pos, mem, lock, data, hist, seed, openLen, univ, handle, midStart, botVars>>

\* self.0.lock()
Acquire(t) ==
    /\ pc[t] = "wait"
    /\ can_lock(lock)
    /\ lock' = t
    /\ pc' = [pc EXCEPT ![t] =
                 IF op[t].name # "get" THEN "encode"
                 ELSE IF kind = "File" THEN "rewind" ELSE "scan"]
    /\ midStart' = [midStart EXCEPT ![t] = 0 < pos /\ pos < Len(disk)]
    /\ UNCHANGED <<T, kind, disk, pos, mem, op, data, res, twinRes, hist,
                   writes, seed, openLen, univ, handle, botVars>>

\* serde_json::to_string(..).map_err(write_err)?
Encode(t) ==
    /\ pc[t] = "encode"
    /\ LET e == to_string(op[t].val, T)
       IN IF e.ok
          THEN /\ data' = [data EXCEPT ![t] = e.text]
               /\ pc' = [pc EXCEPT ![t] = "w_key"]
               /\ UNCHANGED <<res, twinRes>>
          ELSE /\ res' = [res EXCEPT ![t] = write_err("encode")]
               /\ twinRes' = [twinRes EXCEPT ![t] = write_err("encode")]
               /\ pc' = [pc EXCEPT ![t] = "ret"]
               /\ UNCHANGED data
    /\ UNCHANGED <<T, kind, disk, pos, mem, lock, op, hist, writes, seed,
                   openLen, univ, handle, midStart, botVars>>

\* one write_all of writeln!(inner.backing_storage, "{key},{data}")
Write(t) ==
    /\ pc[t] \in WritePcs
    /\ IF kind = "File"
       THEN /\ disk' = file_write(disk, pos, Piece(t))
            /\ pos' = Len(disk')
       ELSE UNCHANGED <<disk, pos>>
    /\ mem' = vec_write(mem, Piece(t))
    /\ pc' = [pc EXCEPT ![t] = NextPiece(pc[t])]
    /\ IF pc[t] = "w_nl"
       THEN /\ hist' = Append(hist, [key |-> op[t].key, val |-> op[t].val])
            /\ res' = [res EXCEPT ![t] = Ok(None)]
            /\ twinRes' = [twinRes EXCEPT ![t] = Ok(None)]
            /\ data' = [data EXCEPT ![t] = <<>>]
       ELSE UNCHANGED <<hist, res, twinRes, data>>
    /\ UNCHANGED <<T, kind, lock, op, writes, seed, openLen, univ, handle, midStart, botVars>>

\* f.rewind().map_err(read_err)?
Rewind(t) ==
    /\ pc[t] = "rewind"
    /\ pos' = rewind(pos)
    /\ pc' = [pc EXCEPT ![t] = "scan"]
    /\ UNCHANGED <<T, kind, disk, mem, lock, op, data, res, twinRes, hist,
                   writes, seed, openLen, univ, handle, midStart, botVars>>

\* search_lines(f, key) / search_lines(&mut b.as_slice(), key).  The BufReader
\* reads the file a buffer (8 KiB) at a time, so a scan that stops at a line
\* leaves the cursor at the end of the buffer that held the line: the end of
\* the file when the file fits in one buffer (univ.chunk = "file"), as near as
\* the end of that line when it does not (univ.chunk = "line").
Scan(t) ==
    /\ pc[t] = "scan"
    /\ IF kind = "File"
       THEN /\ res' = [res EXCEPT ![t] = search_lines(file_read(disk, pos), op[t].key, T)]
            /\ pos' = IF univ.chunk = "file" THEN Len(disk)
                      ELSE pos + scan_stop(file_read(disk, pos), op[t].key, T)
       ELSE /\ res' = [res EXCEPT ![t] = search_lines(mem, op[t].key, T)]
            /\ UNCHANGED pos
    /\ twinRes' = [twinRes EXCEPT ![t] = search_lines(mem, op[t].key, T)]
    /\ mem' = buffer_after_read(mem)
    /\ pc' = [pc EXCEPT ![t] = "ret"]
    /\ UNCHANGED <<T, kind, disk, lock, op, data, hist, writes, seed,
                   openLen, univ, handle, midStart, botVars>>

\* the call returns: the guard `inner` goes out of scope
Return(t) ==
    /\ pc[t] = "ret"
    /\ lock' = unlocked(t, res[t])
    /\ pc' = [pc EXCEPT ![t] = "done"]
    /\ midStart' = [midStart EXCEPT ![t] = FALSE]
    /\ UNCHANGED <<T, kind, disk, pos, mem, op, data, res, twinRes, hist,
                   writes, seed, openLen, univ, handle, botVars>>

\* every handle is dropped and Store::open is called again on the same path
Open ==
    /\ kind = "File"
    /\ lock = NoThread
    /\ \A t \in Threads : pc[t] \in {"idle", "done"}
    /\ \E t \in Threads : pc[t] = "done"
    /\ disk' = open_content(disk)
    /\ pos' = 0
    /\ openLen' = Len(disk')
    /\ pc' = [t \in Threads |-> "idle"]
    /\ op' = [t \in Threads |-> NoOp]
    /\ res' = [t \in Threads |-> NoRes]
    /\ twinRes' = [t \in Threads |-> NoRes]
    /\ UNCHANGED <<T, kind, mem, lock, data, hist, writes, seed, univ, handle, midStart, botVars>>

----
\* I/O failures of the file (a Vec<u8> never fails)

\* write_all fails, possibly after some bytes of the piece went out; the same
\* call on the in-memory store writes its whole record
WriteFail(t) ==
    /\ pc[t] \in WritePcs
    /\ kind = "File"
    /\ \E n \in 0..(Len(Piece(t)) - 1) :
          disk' = file_write(disk, pos, SubSeq(Piece(t), 1, n))
    /\ pos' = Len(disk')
    /\ mem' = vec_write(mem, Remaining(t))
    /\ res' = [res EXCEPT ![t] = write_err("io")]
    /\ twinRes' = [twinRes EXCEPT ![t] = Ok(None)]
    /\ data' = [data EXCEPT ![t] = <<>>]
    /\ pc' = [pc EXCEPT ![t] = "ret"]
    /\ UNCHANGED <<T, kind, lock, op, hist, writes, seed, openLen, univ, handle, midStart, botVars>>

\* f.rewind() fails
RewindFail(t) ==
    /\ pc[t] = "rewind"
    /\ res' = [res EXCEPT ![t] = read_err("io")]
    /\ twinRes' = [twinRes EXCEPT ![t] = search_lines(mem, op[t].key, T)]
    /\ pc' = [pc EXCEPT ![t] = "ret"]
    /\ UNCHANGED <<T, kind, disk, pos, mem, lock, op, data, hist, writes, seed,
                   openLen, univ, handle, midStart, botVars>>

\* reader.read_line fails on its first read of the file
ReadFail(t) ==
    /\ pc[t] = "scan"
    /\ kind = "File"
    /\ res' = [res EXCEPT ![t] = read_err("io")]
    /\ twinRes' = [twinRes EXCEPT ![t] = search_lines(mem, op[t].key, T)]
    /\ pc' = [pc EXCEPT ![t] = "ret"]
    /\ UNCHANGED <<T, kind, disk, pos, mem, lock, op, data, hist, writes, seed,
                   openLen, univ, handle, midStart, botVars>>

----
\* Specifications

Step(t) ==
    \/ Encode(t)
    \/ Write(t)
    \/ Rewind(t)
    \/ Scan(t)
    \/ Return(t)

Fault(t) ==
    \/ WriteFail(t)
    \/ RewindFail(t)
    \/ ReadFail(t)

Next ==
    \/ \E t \in Threads : Call(t)
    \/ \E t \in Threads : Acquire(t)
    \/ \E t \in Threads : Step(t)
    \/ Open

NextIO ==
    \/ Next
    \/ \E t \in Threads : Fault(t)

\* one caller, a new store, no I/O failure
Spec == Init /\ [][Next]_vars

\* one caller, a file that already holds text
SpecSeeded == InitSeeded /\ [][Next]_vars

\* two threads sharing the store
SpecConc == InitConc /\ [][Next]_vars

\* two threads, I/O and encoding failures; every thread that can take a step
\* eventually does, and parking_lot's Mutex is eventually fair to a waiter
Fairness ==
    \A t \in Threads :
        /\ WF_vars(Step(t) \/ Fault(t))
        /\ SF_vars(Acquire(t))

\* one caller, one key, every value type
SpecCodec == InitCodec /\ [][Next]_vars

\* one caller, keys with and without delimiter and line terminator
SpecKeys == InitKeys /\ [][Next]_vars

SpecIO == InitIO /\ [][NextIO]_vars

FairSpec == InitIO /\ [][NextIO]_vars /\ Fairness

----
\* Bot: reaction handlers and configuration watcher

\* Handler::is_enabled on the value the RwLock holds
is_enabled(c, feature) == feature \in c.enabled_features

\* is_pin_emoji
is_pin_emoji(reaction_type) ==
    IF reaction_type.variant = "Unicode" THEN reaction_type.emoji = PIN_EMOJI
    ELSE FALSE

\* has_allowed_role
has_allowed_role(roles, allowed_roles) == \E role \in roles : role \in allowed_roles

\* the variables of the kv store, which the bot leaves alone
StoreVars == <<T, kind, disk, pos, mem, lock, pc, op, data, res, twinRes, hist,
               writes, seed, openLen, univ, handle, midStart>>

\* main: Config::load succeeded, the watcher is spawned, bot::run starts;
\* no kv store is in use
InitBot ==
    /\ T = "u8"
    /\ kind = "Memory"
    /\ seed = <<>>
    /\ univ = [threads |-> {}, keys |-> {}, maxw |-> 0, chunk |-> "file"]
    /\ InitCommon
    /\ config \in Configs
    /\ event = NoReaction
    /\ hpc = "idle"
    /\ user_roles = {}
    /\ issued = "none"
    /\ inForce = {}

\* the gateway delivers a reaction: reaction_add / reaction_remove is called
\* and takes the Reaction apart
ReactionEvent ==
    /\ hpc \in {"idle", "done"}
    /\ event' \in Reactions
    /\ hpc' = "feature"
    /\ user_roles' = {}
    /\ issued' = "none"
    /\ inForce' = {config}
    /\ UNCHANGED config
    /\ UNCHANGED StoreVars

\* if self.is_enabled(Feature::Pins) && is_pin_emoji(emoji): the read guard
\* is dropped when is_enabled returns
FeatureCheck ==
    /\ hpc = "feature"
    /\ hpc' = IF is_enabled(config, "Pins") /\ is_pin_emoji(event.emoji)
              THEN "roles" ELSE "done"
    /\ UNCHANGED <<config, event, user_roles, issued, inForce>>
    /\ UNCHANGED StoreVars

\* match (member, user_id): the roles of the member in the event, or a
\* request to fetch them, or the handler returns
MemberRoles ==
    /\ hpc = "roles"
    /\ IF event.member # None
       THEN /\ user_roles' = event.member[1]
            /\ hpc' = "allowed"
       ELSE IF event.user_id # None
       THEN /\ hpc' = "fetch"
            /\ UNCHANGED user_roles
       ELSE /\ hpc' = "done"
            /\ UNCHANGED user_roles
    /\ UNCHANGED <<config, event, issued, inForce>>
    /\ UNCHANGED StoreVars

\* fetch_user_roles(..).await: the roles Discord reports, or no role when
\* the request fails
FetchUserRoles ==
    /\ hpc = "fetch"
    /\ user_roles' \in SUBSET Roles
    /\ hpc' = "allowed"
    /\ UNCHANGED <<config, event, issued, inForce>>
    /\ UNCHANGED StoreVars

\* if has_allowed_role(&user_roles, &self.config.read().pin_roles): a second
\* read of the RwLock
RoleCheck ==
    /\ hpc = "allowed"
    /\ hpc' = IF has_allowed_role(user_roles, config.pin_roles)
              THEN "request" ELSE "done"
    /\ UNCHANGED <<config, event, user_roles, issued, inForce>>
    /\ UNCHANGED StoreVars

\* pin_message(..).await / unpin_message(..).await
PinRequest ==
    /\ hpc = "request"
    /\ issued' = IF event.kind = "add" THEN "pin" ELSE "unpin"
    /\ hpc' = "done"
    /\ UNCHANGED <<config, event, user_roles, inForce>>
    /\ UNCHANGED StoreVars

\* the watcher thread: the file was modified and Config::load gives a Config;
\* *config.write() = updated_config  (a file that does not load leaves the
\* Config as it is)
ConfigReload ==
    /\ \E updated_config \in Configs :
          /\ updated_config # config
          /\ config' = updated_config
    /\ inForce' = IF hpc \in {"idle", "done"} THEN inForce
                  ELSE inForce \cup {config'}
    /\ UNCHANGED <<event, hpc, user_roles, issued>>
    /\ UNCHANGED StoreVars

NextBot ==
    \/ ReactionEvent
    \/ FeatureCheck
    \/ MemberRoles
    \/ FetchUserRoles
    \/ RoleCheck
    \/ PinRequest
    \/ ConfigReload

\* one reaction at a time, with the configuration reloaded at any moment
SpecBot == InitBot /\ [][NextBot]_vars

----
\* Reference semantics (spec.md, sections 3 and 4.4)

\* the logical value of key k after the calls h: the payload of the last
\* record with that key, None if there is none or it is a tombstone
Logical(h, k) ==
    LET idx == {i \in 1..Len(h) : h[i].key = k}
    IN IF idx = {} THEN None
       ELSE h[CHOOSE i \in idx : \A j \in idx : j <= i].val

\* the bytes the calls h append to an empty log
RECURSIVE LogOf(_, _)
LogOf(h, ty) ==
    IF h = <<>> THEN <<>>
    ELSE Record(Head(h).key, to_string(Head(h).val, ty).text) \o LogOf(Tail(h), ty)

\* the log of the store in use
Log == IF kind = "File" THEN disk ELSE mem

\* a key without field delimiter and without line terminator
PlainKey(k) == ~Contains(k, COMMA) /\ ~Contains(k, NL)

\* a line without its line terminator
Stripped(line) ==
    IF line # <<>> /\ line[Len(line)] = NL THEN SubSeq(line, 1, Len(line) - 1)
    ELSE line

\* the key of a line as section 4.4 reads it: the stripped line up to its first
\* field delimiter
RecordKey(line) == split_first(Stripped(line))

RECURSIVE Lines(_)
Lines(bytes) ==
    IF bytes = <<>> THEN <<>>
    ELSE LET line == read_line(bytes)
         IN <<line>> \o Lines(SubSeq(bytes, Len(line) + 1, Len(bytes)))

\* the log without the records of other keys than k
KeepKey(bytes, k) ==
    LET ls == Lines(bytes)
        F[i \in 0..Len(ls)] ==
            IF i = 0 THEN <<>>
            ELSE IF RecordKey(ls[i]) = k THEN F[i - 1] \o ls[i] ELSE F[i - 1]
    IN F[Len(ls)]

\* a record of key k with no field delimiter, or with nothing after it
Malformed(line, k) ==
    \/ Stripped(line) = k
    \/ Stripped(line) = k \o <<COMMA>>

\* thread t has finished the scan of a get and still holds the lock
GetRet(t) == pc[t] = "ret" /\ op[t].name = "get"

LastRec == hist[Len(hist)]

----
\* Claims

\* C1: a successful set(k, v) immediately followed by get(k) returns Some(v),
\* for any key and any value.
C1_SetThenGet ==
    \A t \in Threads :
        (GetRet(t) /\ hist # <<>> /\ LastRec.key = op[t].key /\ LastRec.val # None)
            => res[t] = Ok(LastRec.val)

\* C2: after any sequence of set/unset, get(k) returns the value of the last
\* record whose key is k in append order.
C2_LastWriteWins ==
    \A t \in Threads : GetRet(t) => res[t] = Ok(Logical(hist, op[t].key))

\* C3: unset always succeeds; get(k) right after unset(k) returns None, whether
\* or not k was set before; a set(k, v2) after an unset(k) makes get(k) return
\* Some(v2).
C3_Tombstone ==
    \A t \in Threads :
        /\ (pc[t] \in {"ret", "done"} /\ op[t].name = "unset") => res[t] = Ok(None)
        /\ (GetRet(t) /\ hist # <<>> /\ LastRec = [key |-> op[t].key, val |-> None])
              => res[t] = Ok(None)
        /\ (GetRet(t) /\ Len(hist) > 1 /\ LastRec.key = op[t].key /\ LastRec.val # None
              /\ hist[Len(hist) - 1] = [key |-> op[t].key, val |-> None])
              => res[t] = Ok(LastRec.val)

\* C4: on a store reached by set/unset calls from the empty store, get(k) of a
\* key no set or unset was issued for returns Ok(None).
C4_AbsentKey ==
    \A t \in Threads :
        (GetRet(t) /\ \A i \in 1..Len(hist) : hist[i].key # op[t].key)
            => res[t] = Ok(None)

\* C4, amended: the same, when no key passed to set or unset contains the
\* field delimiter or a line terminator.
C4_AbsentKeyPlain ==
    \A t \in Threads :
        (/\ GetRet(t)
         /\ \A i \in 1..Len(hist) : hist[i].key # op[t].key /\ PlainKey(hist[i].key))
            => res[t] = Ok(None)

\* a get of an absent key on a log that holds records of another key, one of
\* them with a delimiter in its payload
C4_Witness ==
    \E t \in Threads :
        /\ T = "String"
        /\ GetRet(t)
        /\ Len(hist) >= 2
        /\ \A i \in 1..Len(hist) : hist[i].key # op[t].key /\ PlainKey(hist[i].key)
        /\ \E i \in 1..Len(hist) : hist[i].val = Some(<<"a", COMMA, "b">>)
        /\ res[t] = Ok(None)

\* C5: records of other keys, however malformed, never make get(k) fail: get(k)
\* returns what it returns on the log without the records of other keys.
C5_LazyValidation ==
    \A t \in Threads :
        GetRet(t) => res[t] = search_lines(KeepKey(Log, op[t].key), op[t].key, T)

\* C6: a line that consists of key k with no delimiter or no payload, anywhere
\* in the log, makes get(k) fail with a Read error.
C6_MalformedOwnRecord ==
    \A t \in Threads :
        (GetRet(t) /\ \E i \in 1..Len(Lines(Log)) : Malformed(Lines(Log)[i], op[t].key))
            => res[t].tag = "Read"

\* C7: a get sees a log made of whole records only, and returns the
\* last-record-wins value of the log as it stands while the get holds the lock.
C7_Linearizable ==
    \A t \in Threads :
        GetRet(t) => /\ Log = LogOf(hist, T)
                     /\ res[t] = Ok(Logical(hist, op[t].key))

\* C8: the lock is only ever held by a thread inside an operation, and every
\* started operation returns and leaves the lock released, also on an error.
C8_DeadlockFree ==
    /\ [](lock # NoThread => pc[lock] \notin {"idle", "wait", "done"})
    /\ \A t \in Threads :
          (pc[t] \notin {"idle", "done"}) ~> (pc[t] = "done" /\ lock # t)

\* one call returned an error, the other thread's later call has returned too,
\* and the lock is free
C8_Witness ==
    /\ lock = NoThread
    /\ pc["t1"] = "done" /\ res["t1"].tag = "Write" /\ res["t1"].why = "io"
    /\ pc["t2"] = "done" /\ op["t2"].name = "get" /\ res["t2"].tag = "Read"

\* C9: a new file-backed store and an in-memory store given the same calls hold
\* the same bytes after every step and return the same result for every call.
C9_BackendEquivalence ==
    kind = "File" =>
        /\ disk = mem
        /\ \A t \in Threads : pc[t] \in {"ret", "done"} => res[t] = twinRes[t]

\* a get on the file after an earlier scan and two appends, with a value, and
\* the same on the in-memory store
C9_Witness ==
    \E t \in Threads :
        /\ kind = "File"
        /\ GetRet(t)
        /\ Len(hist) >= 2
        /\ pos = Len(disk)
        /\ res[t].tag = "Ok" /\ res[t].val # None
        /\ twinRes[t] = res[t]

\* a step in which all handles are dropped and the file is opened again
ReopenStep ==
    /\ kind = "File"
    /\ \A t \in Threads : pc[t] \in {"idle", "done"}
    /\ \E t \in Threads : pc[t] = "done"
    /\ \A t \in Threads : pc'[t] = "idle"

\* the bytes a get scans on the file as it is
ScanInput == file_read(disk, rewind(pos))

\* C10: reopening the file keeps its content, and a get scans the same bytes
\* after the reopen as before, so it returns the same result; whenever no append is under way the file is the records
\* appended so far, in the order of the calls, before and after a reopen.
C10_Persistence ==
    [][/\ ReopenStep => /\ disk' = disk
                        /\ ScanInput' = ScanInput
       /\ (kind' = "File" /\ \A t \in Threads : pc'[t] \notin WritePcs)
             => disk' = seed' \o LogOf(hist', T')]_vars

\* after a reopen of a non-empty file a record was appended, and a get returns
\* the value of a record written before the reopen
C10_Witness ==
    \E t \in Threads :
        /\ kind = "File"
        /\ openLen > 0
        /\ Len(disk) > openLen
        /\ GetRet(t)
        /\ hist # <<>>
        /\ hist[1].key = op[t].key
        /\ \A i \in 2..Len(hist) : hist[i].key # op[t].key
        /\ res[t] = Ok(hist[1].val)
        /\ res[t].val # None

\* C11: all clones point to one StoreInner (one log, one lock); a get through
\* one clone scans a log that holds the record of every set/unset that has
\* returned through another clone, and returns what the scanner finds there.
C11_SharedClones ==
    /\ \A t \in univ.threads : handle[t] = Origin
    /\ \A t \in Threads :
          GetRet(t) =>
              /\ Log = LogOf(hist, T)
              /\ res[t] = search_lines(LogOf(hist, T), op[t].key, T)
              /\ \A u \in Threads \ {t} :
                    (pc[u] = "done" /\ op[u].name # "get" /\ res[u].tag = "Ok")
                        => \E i \in 1..Len(hist) :
                              hist[i] = [key |-> op[u].key, val |-> op[u].val]

\* a get through the second clone returns the value that a set through the
\* first clone wrote and returned before
C11_Witness ==
    /\ pc["t1"] = "done" /\ op["t1"].name = "set" /\ res["t1"] = Ok(None)
    /\ GetRet("t2")
    /\ Len(hist) = 1
    /\ res["t2"] = Ok(op["t1"].val)

\* C12: for every value v of the value type, the payload set(k, v) encodes is
\* not the payload unset writes, and decodes to Some(v).
C12_CodecDistinct ==
    \A t \in Threads :
        (pc[t] \in WritePcs /\ op[t].name = "set")
            => /\ data[t] # to_string(None, T).text
               /\ from_str(data[t], T) = Ok(op[t].val)

\* the encoded payload of the latest record
LastPayload == to_string(LastRec.val, T).text

\* C13: when the latest record of key k holds a value whose encoding contains
\* the field delimiter, the scanner takes everything after the first delimiter
\* of that line as the payload, and get(k) returns the whole value.
C13_FirstDelimiterSplit ==
    \A t \in Threads :
        (/\ GetRet(t)
         /\ hist # <<>>
         /\ LastRec.key = op[t].key
         /\ PlainKey(LastRec.key)
         /\ LastRec.val # None
         /\ Contains(LastPayload, COMMA))
            => /\ trim(split_second(Record(LastRec.key, LastPayload)).text) = LastPayload
               /\ res[t] = Ok(LastRec.val)

\* thread t is between self.0.lock() and the drop of the guard
Inside(t) == pc[t] \in {"encode", "rewind", "scan", "ret"} \cup WritePcs

\* the part of its record that thread t has written so far
Written(t) ==
    IF pc[t] = "w_comma" THEN op[t].key
    ELSE IF pc[t] = "w_data" THEN op[t].key \o <<COMMA>>
    ELSE IF pc[t] = "w_nl" THEN op[t].key \o <<COMMA>> \o data[t]
    ELSE <<>>

\* C14: at most one operation is inside its lock-protected section, and it
\* is the holder of the lock; while a get is inside, no append is under way
\* and the log is made of whole records; while an append is under way, the
\* log is the whole records appended before followed by the part of the one
\* record written so far.
C14_MutualExclusion ==
    /\ \A t, u \in Threads : (Inside(t) /\ Inside(u)) => t = u
    /\ \A t \in Threads : Inside(t) => lock = t
    /\ \A t \in Threads :
          (Inside(t) /\ op[t].name = "get")
              => /\ \A u \in Threads : pc[u] \notin WritePcs
                 /\ Log = LogOf(hist, T)
    /\ \A t \in Threads :
          pc[t] \in WritePcs => Log = LogOf(hist, T) \o Written(t)

\* one thread is in the middle of its append, after an earlier record, while
\* the other thread has called get and waits for the lock
C14_Witness ==
    /\ pc["t1"] = "w_data"
    /\ hist # <<>>
    /\ pc["t2"] = "wait" /\ op["t2"].name = "get"
    /\ lock = "t1"

\* C15: no step changes or removes a byte the log holds; the log only grows
\* by the next piece of the record of a thread inside set/unset; and the step
\* that completes a set/unset leaves the log as it was when the call began to
\* write, followed by exactly the line key, delimiter, payload, terminator.
C15_AppendOnly ==
    [][/\ SubSeq(Log', 1, Len(Log)) = Log
       /\ Log' # Log =>
              \E t \in Threads : pc[t] \in WritePcs /\ Log' = Log \o Piece(t)
       /\ \A t \in Threads :
              (pc[t] = "w_nl" /\ pc'[t] = "ret" /\ res'[t].tag = "Ok")
                  => /\ Len(Log) >= Len(Written(t))
                     /\ Log' = SubSeq(Log, 1, Len(Log) - Len(Written(t)))
                                   \o Record(op[t].key, data[t])]_vars

\* an unset has completed as the second append to the log
C15_Witness ==
    \E t \in Threads :
        /\ pc[t] = "ret" /\ op[t].name = "unset" /\ res[t] = Ok(None)
        /\ Len(hist) = 2
        /\ hist[1].val # None
        /\ Log = LogOf(hist, T)

\* a step of thread t inside a call of get
GetStep(t) ==
    /\ op[t].name = "get"
    /\ pc[t] \in {"wait", "rewind", "scan", "ret"}
    /\ pc'[t] # pc[t]

\* C16: no step of a get changes the content of the file or of the buffer,
\* whatever the get returns, so the bytes the next get scans are the same
\* after the get as before it.
C16_GetReadOnly ==
    [][\A t \in Threads :
          GetStep(t) => /\ disk' = disk
                        /\ mem' = mem
                        /\ ScanInput' = ScanInput]_vars

\* a get has failed at the first record of its key, with another record
\* after it in the log, and the log is still the records appended
C16_Witness ==
    \E t \in Threads :
        /\ GetRet(t)
        /\ res[t].tag = "Read"
        /\ T = "String"
        /\ Len(hist) >= 2
        /\ hist[1] = [key |-> op[t].key, val |-> Some(<<"a", COMMA, "b">>)]
        /\ Log = LogOf(hist, T)

\* C17: on a file-backed store, wherever the cursor was when the call took the
\* lock, a get returns what the scanner finds in the whole file from offset
\* zero, and the pieces a set/unset writes land after the last record of the
\* file, so that the file is always the records appended, in order.
C17_CursorIndependence ==
    kind = "File" =>
        /\ \A t \in Threads :
              GetRet(t) => res[t] = search_lines(disk, op[t].key, T)
        /\ \A t \in Threads :
              pc[t] \in WritePcs => disk = LogOf(hist, T) \o Written(t)
        /\ (\A t \in Threads : pc[t] \notin WritePcs) => disk = LogOf(hist, T)

\* a get that found the cursor in the middle of the file, where a scan that
\* stopped at an error had left it, returns the value of the latest record
C17_Witness ==
    \E t \in Threads :
        /\ kind = "File"
        /\ GetRet(t)
        /\ midStart[t]
        /\ hist # <<>>
        /\ LastRec.key = op[t].key
        /\ res[t] = Ok(LastRec.val)
        /\ res[t].val # None

\* the payload of a line as section 4.4 reads it: the stripped line after its
\* first field delimiter
PayloadOf(line) ==
    SubSeq(Stripped(line), IndexOf(Stripped(line), COMMA) + 1, Len(Stripped(line)))

\* a record of key k whose payload decodes
GoodRecord(line, k) ==
    /\ RecordKey(line) = k
    /\ Contains(Stripped(line), COMMA)
    /\ from_str(trim(PayloadOf(line)), T).tag = "Ok"

\* a record of key k with no payload, or with one that does not decode
BadRecord(line, k) == RecordKey(line) = k /\ ~GoodRecord(line, k)

\* C18: when the log holds a record of key k with a missing or undecodable
\* payload and, after it, a well-formed record of k, get(k) returns a Read
\* error.
C18_NotRepaired ==
    \A t \in Threads :
        (/\ GetRet(t)
         /\ \E i, j \in 1..Len(Lines(Log)) :
               /\ i < j
               /\ BadRecord(Lines(Log)[i], op[t].key)
               /\ GoodRecord(Lines(Log)[j], op[t].key))
            => res[t].tag = "Read"

\* C19: a set or unset that fails returns the Write variant, whose text says
\* that a record could not be written; a get that fails returns the Read
\* variant, whose text says that a record could not be read.
C19_ErrorKinds ==
    \A t \in Threads :
        (pc[t] \in {"ret", "done"} /\ res[t].tag \in {"Read", "Write"})
            => IF op[t].name = "get"
               THEN /\ res[t].tag = "Read"
                    /\ describe(res[t].tag) = "Unable to read record"
               ELSE /\ res[t].tag = "Write"
                    /\ describe(res[t].tag) = "Unable to write record"

\* thread t has appended its record and is about to return from set / unset
WriteDone(t) == pc[t] = "ret" /\ op[t].name # "get" /\ res[t].tag = "Ok"

\* the log as it was before the latest record was appended
LogBefore == SubSeq(Log, 1, Len(Log) - Len(Record(LastRec.key, LastPayload)))

\* C20: a set(k1, v) or unset(k1) leaves the result of get(k2) as it was, for
\* every key k2 other than k1, whatever the two keys are.
C20_KeyIndependence ==
    \A t \in Threads :
        WriteDone(t) =>
            \A k2 \in univ.keys \ {op[t].key} :
                search_lines(Log, k2, T) = search_lines(LogBefore, k2, T)

\* C20, amended: the same, when k1 contains neither the field delimiter nor a
\* line terminator.
C20_KeyIndependencePlain ==
    \A t \in Threads :
        (WriteDone(t) /\ PlainKey(op[t].key)) =>
            \A k2 \in univ.keys \ {op[t].key} :
                search_lines(Log, k2, T) = search_lines(LogBefore, k2, T)

\* an unset of key j has been appended to a log with earlier records, and
\* get of key k returns a value, the same as before the unset
C20_Witness ==
    \E t \in Threads :
        /\ WriteDone(t)
        /\ op[t].name = "unset" /\ op[t].key = K2
        /\ Len(hist) >= 2
        /\ search_lines(Log, K1, T).tag = "Ok"
        /\ search_lines(Log, K1, T).val # None
        /\ search_lines(LogBefore, K1, T) = search_lines(Log, K1, T)

\* C21: when a set or unset returns an error, the log is what it was before
\* the call: the whole records appended so far, with no part of the failed
\* record after them.
C21_WriteAtomicity ==
    \A t \in Threads :
        (pc[t] = "ret" /\ op[t].name # "get" /\ res[t].tag = "Write")
            => Log = seed \o LogOf(hist, T)

\* C22: the handler is about to send a pin or unpin request only if the emoji
\* is the pin emoji and one Config, in force at some instant since the
\* handler was called, both enables Pins and lists a role of the user in
\* pin_roles.
C22_OneConfiguration ==
    hpc = "request" =>
        /\ is_pin_emoji(event.emoji)
        /\ \E c \in inForce :
              /\ is_enabled(c, "Pins")
              /\ has_allowed_role(user_roles, c.pin_roles)

====
